---- MODULE Spec2Model ----
(***************************************************************************)
(* Model of the multi-height consensus manager of                          *)
(* crates/sequencing/papyrus_consensus/src/manager.rs: run_consensus, the  *)
(* per-height driver MultiHeightManager::run_height, the cache of future   *)
(* height messages, next_message and sync_height.                          *)
(*                                                                         *)
(* The single-height machine (SingleHeightConsensus), the context, the     *)
(* network receiver and the sync receiver are the environment: what they   *)
(* return is chosen nondeterministically from small sets.                  *)
(***************************************************************************)
EXTENDS Integers, Sequences, FiniteSets, TLC

\* ------------------------------------------------------------------ bounds
\* Heights run from 0 to MaxHeight; no step moves current_height past it.
MaxHeight == 3
\* Inputs of one run: the items taken from the network receiver and from the
\* sync receiver, and the tasks the single-height machines return.
MaxInputs == 4

Heights == 0..MaxHeight
\* The values of start_height that Init chooses from.
StartHeights == {1, 2}
\* The Decisions a machine may return: a block and the precommits for it.
Decisions == {[block |-> 1, precommits |-> 2], [block |-> 2, precommits |-> 1]}
\* The variants of ConsensusMessage that handle_message tells apart.
Kinds == {"Proposal", "Vote"}

VARIABLES
    start_height,             \* argument of run_consensus
    current_height,           \* manager.rs:62
    pc,                       \* where run_consensus is suspended
    err,                      \* the error run_consensus returned, "" if none
    cached_messages,          \* MultiHeightManager.cached_messages (BTreeMap)
    current_height_messages,  \* run_height's local buffer, manager.rs:147
    shc_tasks,                \* run_height's FuturesUnordered, manager.rs:136
    elapsed,                  \* the tasks of shc_tasks whose sleep is over
    awaiting,                 \* the machine call run_height is suspended in
    decision,                 \* the Decision run_height returned
    reached,                  \* the arguments of the last decision_reached call
    sync_count,               \* PAPYRUS_CONSENSUS_SYNC_COUNT
    net_count,                \* items taken from network_receiver so far
    net_last,                 \* the last item taken from network_receiver
    sync_pending,             \* heights in sync_receiver that were not taken yet
    sync_taken,               \* items taken from sync_receiver so far
    task_count,               \* tasks created so far
    events,                   \* log: run_height started, decision_reached called, sync taken
    inserted,                 \* log: every message ever pushed under each cache key
    drained,                  \* log: what the drain of this height returned
    delivered,                \* log: messages handed to this height's machine
    net_pulls,                \* log: network items taken by this height's driver
    handled                   \* log: the tasks passed to shc.handle_task

vars == <<start_height, current_height, pc, err, cached_messages,
          current_height_messages, shc_tasks, elapsed, awaiting, decision,
          reached, sync_count, net_count, net_last, sync_pending, sync_taken,
          task_count, events, inserted, drained, delivered, net_pulls, handled>>

\* ------------------------------------------------------------------ values
NoDecision == [block |-> 0, precommits |-> 0]
\* A ConsensusMessage is its height() and an identity (its arrival number).  Its
\* variant is read once, by the match of handle_message that consumes it, and
\* is chosen there.
NoMsg == [height |-> 0, id |-> 0]
NoItem == [parsed |-> TRUE, msg |-> NoMsg, signalled |-> 0, send_ok |-> TRUE]
EmptyCache == [k \in {} |-> <<>>]

Last(s) == s[Len(s)]

\* BlockNumber::unchecked_next, as used on the two branches of the outer select.
unchecked_next(h) == h + 1

\* manager.rs:77, the height after a Decision.  Faulty variant: it does not advance.
decision_branch_height_repeat(height) == height
decision_branch_height(height) == unchecked_next(height)

\* manager.rs:81, the height after a sync.  Faulty variants: the sync height
\* itself; the successor of current_height instead of that of the sync height.
sync_branch_height_same(sync_h) == sync_h
sync_branch_height_from_current(sync_h) == unchecked_next(current_height)
sync_branch_height(sync_h) == unchecked_next(sync_h)

\* The guard of sync_height's first match arm.  Faulty variant: no guard.
sync_accepts_any(sync_h, height) == TRUE
sync_accepts(sync_h, height) == sync_h >= height

\* ------------------------------------------------------------------ cache
FirstKey(cache) == CHOOSE k \in DOMAIN cache : \A j \in DOMAIN cache : k <= j
RemoveKey(cache, k) == [j \in (DOMAIN cache) \ {k} |-> cache[j]]

\* self.cached_messages.entry(h).or_default().push(message)
cache_push(cache, msg) ==
    LET h == msg.height
        old == IF h \in DOMAIN cache THEN cache[h] ELSE <<>>
    IN [j \in (DOMAIN cache) \cup {h} |-> IF j = h THEN Append(old, msg) ELSE cache[j]]

\* handle_message's test for caching a message of another height.  Faulty
\* variant: past heights are cached too.
caches_other_height(mh, height) == mh # height
caches(mh, height) == mh > height

\* get_current_height_messages: the loop over first_entry().  Returns the new
\* cache and the returned Vec.  Faulty variants: the loop gives up at a first
\* key below `height`; the entry of `height` is returned but left in the cache.
drain_stops_at_first(cache, height) ==
    IF DOMAIN cache = {} THEN [cache |-> cache, msgs |-> <<>>]
    ELSE LET k == FirstKey(cache) IN
         IF k = height THEN [cache |-> RemoveKey(cache, k), msgs |-> cache[k]]
         ELSE [cache |-> cache, msgs |-> <<>>]

drain_keeps_equal(cache, height) ==
    LET below == {k \in DOMAIN cache : k < height}
        kept == [j \in (DOMAIN cache) \ below |-> cache[j]]
    IN [cache |-> kept, msgs |-> IF height \in DOMAIN cache THEN cache[height] ELSE <<>>]

RECURSIVE get_current_height_messages(_, _)
get_current_height_messages(cache, height) ==
    IF DOMAIN cache = {} THEN [cache |-> cache, msgs |-> <<>>]
    ELSE LET k == FirstKey(cache) IN
         IF k > height THEN [cache |-> cache, msgs |-> <<>>]
         ELSE IF k = height THEN [cache |-> RemoveKey(cache, k), msgs |-> cache[k]]
         ELSE get_current_height_messages(RemoveKey(cache, k), height)

\* next_message: cached_messages.pop() is Some.  Faulty variant: the buffer is
\* never looked at.
buffer_ready_never(buf) == FALSE
buffer_ready(buf) == Len(buf) > 0

\* Vec::pop: the last element and the rest.  Faulty variant: the front element
\* is handed out.
pop_msg_first(buf) == buf[1]
pop_msg(buf) == Last(buf)
pop_rest(buf) == SubSeq(buf, 1, Len(buf) - 1)

\* next_message, Ok arm and Err arm: how often the item's report_sender is used.
\* Faulty variant: every item is reported.
report_sends_always(parsed) == 1
report_sends(parsed) == IF parsed THEN 0 ELSE 1

\* next_message, Err arm: the error surfaced after report_sender.send(()).
parse_error_result(send_ok) ==
    IF send_ok THEN "MessageConversionError" ELSE "InternalNetworkError"

\* ------------------------------------------------------------------ log
StartEv(h) == [ev |-> "start", cur |-> h, h |-> h]
DecisionEv(h) == [ev |-> "decision", cur |-> h, h |-> h]
SyncEv(cur, h) == [ev |-> "sync", cur |-> cur, h |-> h]

\* manager.rs:76: the arguments handed to context.decision_reached.  Faulty
\* variant: the two fields are swapped.
decision_reached_args_swapped(d) == [block |-> d.precommits, precommits |-> d.block]
decision_reached_args(d) == [block |-> d.block, precommits |-> d.precommits]

\* ------------------------------------------------------------------ state
Init ==
    /\ start_height \in StartHeights
    /\ current_height = start_height
    /\ pc = "select"
    /\ err = ""
    /\ cached_messages = EmptyCache
    /\ current_height_messages = <<>>
    /\ shc_tasks = {}
    /\ elapsed = {}
    /\ awaiting = "none"
    /\ decision = NoDecision
    /\ reached = NoDecision
    /\ sync_count = 0
    /\ net_count = 0
    /\ net_last = NoItem
    /\ sync_pending = <<>>
    /\ sync_taken = 0
    /\ task_count = 0
    /\ events = <<>>
    /\ inserted = [h \in Heights |-> <<>>]
    /\ drained = <<>>
    /\ delivered = <<>>
    /\ net_pulls = 0
    /\ handled = {}

\* The run may still take n inputs.
InputsLeft(n) ==
    net_count + Len(sync_pending) + sync_taken + task_count + n <= MaxInputs

\* What stays as it is when only the driver (run_height) moves.
OuterUnchanged ==
    UNCHANGED <<start_height, current_height, sync_count, sync_pending, sync_taken>>
NetUnchanged == UNCHANGED <<net_count, net_last, net_pulls>>

\* The locals of run_height are dropped: the future returned or select! dropped it.
\* Faulty variant: the scheduled tasks outlive the driver.
DropDriver_keeps_tasks ==
    /\ current_height_messages' = <<>>
    /\ awaiting' = "none"
    /\ UNCHANGED <<shc_tasks, elapsed>>

DropDriver ==
    /\ current_height_messages' = <<>>
    /\ shc_tasks' = {}
    /\ elapsed' = {}
    /\ awaiting' = "none"

\* ------------------------------------------------------------------ run_height
\* manager.rs:67,129: the outer select polls run_height, which calls
\* context.validators(height) and suspends.
run_height_begin ==
    /\ pc = "select"
    /\ pc' = "validators"
    /\ events' = Append(events, StartEv(current_height))
    /\ drained' = <<>>
    /\ delivered' = <<>>
    /\ net_pulls' = 0
    /\ OuterUnchanged
    /\ UNCHANGED <<err, cached_messages, current_height_messages, shc_tasks, elapsed,
                   awaiting, decision, reached, net_count, net_last, task_count, inserted>>
    /\ UNCHANGED handled

\* manager.rs:129-138: validators returned, the machine is built and shc.start is called.
validators_return ==
    /\ pc = "validators"
    /\ pc' = "shc"
    /\ awaiting' = "start"
    /\ OuterUnchanged
    /\ NetUnchanged
    /\ UNCHANGED <<err, cached_messages, current_height_messages, shc_tasks, elapsed,
                   decision, reached, task_count, events, inserted, drained, delivered>>
    /\ UNCHANGED handled

\* Faulty variant of shc_return_decision: the cache was drained before start, so
\* a Decision returned by start leaves a filtered cache behind.
shc_return_decision_drained(d) ==
    /\ pc = "shc"
    /\ decision' = d
    /\ reached' = decision_reached_args(d)
    /\ events' = Append(events, DecisionEv(current_height))
    /\ pc' = "decision_reached"
    /\ cached_messages' =
          IF awaiting = "start"
          THEN get_current_height_messages(cached_messages, current_height).cache
          ELSE cached_messages
    /\ DropDriver
    /\ OuterUnchanged
    /\ NetUnchanged
    /\ UNCHANGED <<err, task_count, inserted, drained, delivered>>
    /\ UNCHANGED handled

\* manager.rs:139,159 then 74-76: the machine returned a Decision, run_height returns
\* it, and the select arm calls context.decision_reached with its fields.
shc_return_decision(d) ==
    /\ pc = "shc"
    /\ decision' = d
    /\ reached' = decision_reached_args(d)
    /\ events' = Append(events, DecisionEv(current_height))
    /\ pc' = "decision_reached"
    /\ DropDriver
    /\ OuterUnchanged
    /\ NetUnchanged
    /\ UNCHANGED <<err, cached_messages, task_count, inserted, drained, delivered>>
    /\ UNCHANGED handled

\* manager.rs:140-147 (after start) and 160-165 (in the loop): the machine returned
\* n tasks; each is pushed as a sleeping future.  After start the cache is drained.
shc_return_tasks(n) ==
    /\ pc = "shc"
    /\ InputsLeft(n)
    /\ LET new == {[id |-> task_count + i, height |-> current_height] : i \in 1..n}
       IN /\ shc_tasks' = shc_tasks \cup new
          /\ task_count' = task_count + n
    /\ IF awaiting = "start"
       THEN LET r == get_current_height_messages(cached_messages, current_height)
            IN /\ cached_messages' = r.cache
               /\ current_height_messages' = r.msgs
               /\ drained' = r.msgs
       ELSE UNCHANGED <<cached_messages, current_height_messages, drained>>
    /\ awaiting' = "none"
    /\ pc' = "inner"
    /\ OuterUnchanged
    /\ NetUnchanged
    /\ UNCHANGED <<err, elapsed, decision, reached, events, inserted, delivered>>
    /\ UNCHANGED handled

\* manager.rs:138,151,154 with `?`: the machine returned an error.  Faulty
\* variant: the error is noted and the driver goes on with its loop.
shc_return_err_recovers ==
    /\ pc = "shc"
    /\ pc' = "inner"
    /\ err' = "SingleHeightError"
    /\ awaiting' = "none"
    /\ OuterUnchanged
    /\ NetUnchanged
    /\ UNCHANGED <<cached_messages, current_height_messages, shc_tasks, elapsed, decision,
                   reached, task_count, events, inserted, drained, delivered>>
    /\ UNCHANGED handled

shc_return_err ==
    /\ pc = "shc"
    /\ pc' = "error"
    /\ err' = "SingleHeightError"
    /\ DropDriver
    /\ OuterUnchanged
    /\ NetUnchanged
    /\ UNCHANGED <<cached_messages, decision, reached, task_count, events, inserted, drained,
                   delivered>>
    /\ UNCHANGED handled

\* Faulty variant of handle_message: the height of the message is not looked at.
handle_message_unchecked(msg, k, src) ==
    /\ delivered' = Append(delivered, [msg |-> msg, src |-> src])
    /\ awaiting' = IF k = "Proposal" THEN "handle_proposal" ELSE "handle_message"
    /\ pc' = "shc"
    /\ UNCHANGED <<cached_messages, inserted>>

\* manager.rs:170-212, handle_message for `msg` of variant `k` taken from `src`.
handle_message(msg, k, src) ==
    IF msg.height # current_height
    THEN /\ IF caches(msg.height, current_height)
            THEN /\ cached_messages' = cache_push(cached_messages, msg)
                 /\ inserted' = [inserted EXCEPT ![msg.height] = Append(@, msg)]
            ELSE UNCHANGED <<cached_messages, inserted>>
         /\ pc' = "inner"
         /\ UNCHANGED <<awaiting, delivered>>
    ELSE /\ delivered' = Append(delivered, [msg |-> msg, src |-> src])
         /\ awaiting' = IF k = "Proposal" THEN "handle_proposal" ELSE "handle_message"
         /\ pc' = "shc"
         /\ UNCHANGED <<cached_messages, inserted>>

\* manager.rs:243-245 then 151: next_message pops the buffer.
next_message_cached(k) ==
    /\ pc = "inner"
    /\ buffer_ready(current_height_messages)
    /\ current_height_messages' = pop_rest(current_height_messages)
    /\ handle_message(pop_msg(current_height_messages), k, "cache")
    /\ OuterUnchanged
    /\ NetUnchanged
    /\ UNCHANGED <<err, shc_tasks, elapsed, decision, reached, task_count, events, drained>>
    /\ UNCHANGED handled

\* manager.rs:247-252 then 151: the network receiver yields a parsed message.
next_message_network(h, k) ==
    /\ pc = "inner"
    /\ ~buffer_ready(current_height_messages)
    /\ InputsLeft(1)
    /\ LET msg == [height |-> h, id |-> net_count + 1]
       IN /\ net_last' = [parsed |-> TRUE, msg |-> msg,
                          signalled |-> report_sends(TRUE), send_ok |-> TRUE]
          /\ handle_message(msg, k, "net")
    /\ net_count' = net_count + 1
    /\ net_pulls' = net_pulls + 1
    /\ OuterUnchanged
    /\ UNCHANGED <<err, current_height_messages, shc_tasks, elapsed, decision, reached,
                   task_count, events, drained>>
    /\ UNCHANGED handled

\* manager.rs:253-259: the item failed to parse; the report is sent (which may
\* fail) and the error is surfaced through run_height and run_consensus.
next_message_parse_error(send_ok) ==
    /\ pc = "inner"
    /\ ~buffer_ready(current_height_messages)
    /\ InputsLeft(1)
    /\ net_last' = [parsed |-> FALSE, msg |-> NoMsg,
                    signalled |-> report_sends(FALSE), send_ok |-> send_ok]
    /\ net_count' = net_count + 1
    /\ net_pulls' = net_pulls + 1
    /\ pc' = "error"
    /\ err' = parse_error_result(send_ok)
    /\ DropDriver
    /\ OuterUnchanged
    /\ UNCHANGED <<cached_messages, decision, reached, task_count, events, inserted, drained,
                   delivered>>
    /\ UNCHANGED handled

\* manager.rs:247-249: the network receiver is closed.
next_message_closed ==
    /\ pc = "inner"
    /\ ~buffer_ready(current_height_messages)
    /\ pc' = "error"
    /\ err' = "InternalNetworkError"
    /\ DropDriver
    /\ OuterUnchanged
    /\ NetUnchanged
    /\ UNCHANGED <<cached_messages, decision, reached, task_count, events, inserted, drained,
                   delivered>>
    /\ UNCHANGED handled

\* manager.rs:287-290: a task's sleep is over.
task_elapsed(t) ==
    /\ t \in shc_tasks \ elapsed
    /\ elapsed' = elapsed \cup {t}
    /\ OuterUnchanged
    /\ NetUnchanged
    /\ UNCHANGED <<pc, err, cached_messages, current_height_messages, shc_tasks,
                   awaiting, decision, reached, task_count, events, inserted, drained, delivered>>
    /\ UNCHANGED handled

\* manager.rs:153-154: the inner select takes a finished task and calls handle_task.
task_fired(t) ==
    /\ pc = "inner"
    /\ t \in elapsed
    /\ shc_tasks' = shc_tasks \ {t}
    /\ elapsed' = elapsed \ {t}
    /\ handled' = handled \cup {t}
    /\ awaiting' = "handle_task"
    /\ pc' = "shc"
    /\ OuterUnchanged
    /\ NetUnchanged
    /\ UNCHANGED <<err, cached_messages, current_height_messages, decision, reached, task_count,
                   events, inserted, drained, delivered>>

\* ------------------------------------------------------------------ run_consensus
\* manager.rs:76-77: decision_reached returned; the decision of the select arm is gone.
decision_reached_return(ok) ==
    /\ pc = "decision_reached"
    /\ IF ok
       THEN /\ decision_branch_height(current_height) <= MaxHeight
            /\ current_height' = decision_branch_height(current_height)
            /\ pc' = "select"
            /\ err' = err
       ELSE /\ pc' = "error"
            /\ err' = "ContextError"
            /\ current_height' = current_height
    /\ decision' = NoDecision
    /\ reached' = NoDecision
    /\ NetUnchanged
    /\ UNCHANGED <<start_height, cached_messages, current_height_messages, shc_tasks,
                   elapsed, awaiting, sync_count, sync_pending, sync_taken, task_count, events, inserted, drained, delivered>>
    /\ UNCHANGED handled

\* The outer select can take its sync arm wherever run_height is suspended.
\* Faulty variants: the sync arm also races the decision_reached call; the sync
\* arm is only polled before run_height.
Preemptible_in_decision ==
    pc \in {"select", "validators", "shc", "inner", "decision_reached"}
Preemptible_before_driver == pc = "select"
Preemptible == pc \in {"select", "validators", "shc", "inner"}

\* manager.rs:41,48: the sync stream gets a height that sync_height can take.
\* The stream holds one height at a time: the next one comes after it was taken.
sync_send(h) ==
    /\ pc # "error"
    /\ sync_pending = <<>>
    /\ InputsLeft(1)
    /\ sync_pending' = Append(sync_pending, h)
    /\ NetUnchanged
    /\ UNCHANGED <<start_height, current_height, pc, err, cached_messages,
                   current_height_messages, shc_tasks, elapsed, awaiting, decision, reached,
                   sync_count, sync_taken, task_count, events, inserted, drained,
                   delivered>>
    /\ UNCHANGED handled

\* manager.rs:277-279: sync_height takes a height below `height` and loops.
sync_ignored(h) ==
    /\ Preemptible
    /\ sync_pending # <<>>
    /\ h = Head(sync_pending)
    /\ sync_pending' = Tail(sync_pending)
    /\ ~sync_accepts(h, current_height)
    /\ sync_taken' = sync_taken + 1
    /\ NetUnchanged
    /\ UNCHANGED <<start_height, current_height, pc, err, cached_messages,
                   current_height_messages, shc_tasks, elapsed, awaiting, decision, reached,
                   sync_count, task_count, events, inserted, drained, delivered>>
    /\ UNCHANGED handled

\* Faulty variant of sync_accepted: the cache goes with the dropped driver.
sync_accepted_clears_cache(h) ==
    /\ Preemptible
    /\ sync_pending # <<>>
    /\ h = Head(sync_pending)
    /\ sync_pending' = Tail(sync_pending)
    /\ sync_accepts(h, current_height)
    /\ sync_branch_height(h) <= MaxHeight
    /\ sync_taken' = sync_taken + 1
    /\ sync_count' = sync_count + 1
    /\ current_height' = sync_branch_height(h)
    /\ events' = Append(events, SyncEv(current_height, h))
    /\ pc' = "select"
    /\ cached_messages' = EmptyCache
    /\ DropDriver
    /\ NetUnchanged
    /\ UNCHANGED <<start_height, err, decision, reached, task_count, inserted,
                   drained, delivered, handled>>

\* manager.rs:273-276 then 79-81: sync_height returns h, run_height is dropped, the
\* counter is incremented and current_height moves past h.
sync_accepted(h) ==
    /\ Preemptible
    /\ sync_pending # <<>>
    /\ h = Head(sync_pending)
    /\ sync_pending' = Tail(sync_pending)
    /\ sync_accepts(h, current_height)
    /\ sync_branch_height(h) <= MaxHeight
    /\ sync_taken' = sync_taken + 1
    /\ sync_count' = sync_count + 1
    /\ current_height' = sync_branch_height(h)
    /\ events' = Append(events, SyncEv(current_height, h))
    /\ pc' = "select"
    /\ DropDriver
    /\ NetUnchanged
    /\ UNCHANGED <<start_height, err, cached_messages, decision, reached, task_count, inserted,
                   drained, delivered>>
    /\ UNCHANGED handled

\* manager.rs:280-282 then 79-81: the sync receiver is closed and empty; the
\* counter is incremented before `?` returns the error.
sync_closed ==
    /\ Preemptible
    /\ sync_pending = <<>>
    /\ sync_count' = sync_count + 1
    /\ pc' = "error"
    /\ err' = "SyncError"
    /\ DropDriver
    /\ NetUnchanged
    /\ UNCHANGED <<start_height, current_height, cached_messages, decision, reached,
                   sync_pending, sync_taken, task_count, events, inserted,
                   drained, delivered>>
    /\ UNCHANGED handled

Next ==
    \/ run_height_begin
    \/ validators_return
    \/ \E d \in Decisions : shc_return_decision(d)
    \/ \E n \in 0..1 : shc_return_tasks(n)
    \/ shc_return_err
    \/ \E k \in Kinds : next_message_cached(k)
    \/ \E h \in 1..MaxHeight, k \in Kinds : next_message_network(h, k)
    \/ \E ok \in BOOLEAN : next_message_parse_error(ok)
    \/ next_message_closed
    \/ \E t \in shc_tasks : task_elapsed(t)
    \/ \E t \in shc_tasks : task_fired(t)
    \/ \E ok \in BOOLEAN : decision_reached_return(ok)
    \/ \E h \in 0..(MaxHeight - 1) : sync_send(h)
    \/ \E h \in Heights : sync_ignored(h)
    \/ \E h \in Heights : sync_accepted(h)
    \/ sync_closed

Spec == Init /\ [][Next]_vars

\* manager.rs:79: the sync arm of the outer select, polled whenever the select is.
sync_branch == \E h \in Heights : sync_ignored(h) \/ sync_accepted(h)
\* manager.rs:76: the context call returns.
context_returns == \E ok \in BOOLEAN : decision_reached_return(ok)

\* run_consensus with a select that keeps polling its sync arm and a context
\* whose decision_reached returns.
FairSpec == Spec /\ WF_vars(sync_branch) /\ WF_vars(context_returns)

\* ------------------------------------------------------------------ properties
DecisionIdx == {i \in 1..Len(events) : events[i].ev = "decision"}
StartIdx == {i \in 1..Len(events) : events[i].ev = "start"}
SyncIdx == {i \in 1..Len(events) : events[i].ev = "sync"}
Range(s) == {s[i] : i \in 1..Len(s)}

\* C1: the heights at which decision_reached is invoked are strictly increasing
\* and start no lower than start_height; two consecutive invocations are one
\* height apart unless a sync advance lies between them; decision_reached is
\* never invoked for a height a sync advance skipped.
C1_MonotonicDecisions ==
    /\ \A i \in DecisionIdx : events[i].cur >= start_height
    /\ \A i, j \in DecisionIdx : i < j => events[i].cur < events[j].cur
    /\ \A i, j \in DecisionIdx :
          (i < j /\ ~\E m \in DecisionIdx : i < m /\ m < j)
          => \/ events[j].cur = events[i].cur + 1
             \/ \E k \in SyncIdx : i < k /\ k < j
    /\ \A k \in SyncIdx : \A i \in DecisionIdx :
          ~(events[k].cur <= events[i].cur /\ events[i].cur <= events[k].h)

\* A decision, then a sync advance that skips a height, then the next decision.
C1_Witness ==
    \E i, m \in DecisionIdx : \E k \in SyncIdx :
        /\ i < k /\ k < m
        /\ events[m].cur > events[i].cur + 1

\* C2: the heights passed to successive run_height calls are strictly
\* increasing: no height is started twice, none below an earlier one.
C2_NoReplay ==
    \A i, j \in StartIdx : i < j => events[i].cur < events[j].cur

\* A driver was started at H, a sync to H itself ended it, the next one runs at H + 1.
C2_Witness ==
    \E i, j \in StartIdx : \E k \in SyncIdx :
        /\ i < k /\ k < j
        /\ events[k].cur = events[i].cur
        /\ events[k].h = events[k].cur
        /\ events[j].cur = events[i].cur + 1

\* C3: a sync height h >= current_height taken while the driver has produced no
\* Decision: decision_reached is not called for that current_height, the driver
\* is dropped, current_height becomes h + 1 and whatever comes next (a driver, a
\* further sync) is at h + 1.
C3_SyncPreemption ==
    \A k \in SyncIdx :
        LET e == events[k] IN
        /\ e.h >= e.cur
        /\ ~\E i \in DecisionIdx : events[i].cur = e.cur
        /\ IF k = Len(events)
           THEN /\ current_height = e.h + 1
                /\ pc \in {"select", "error"}
                /\ shc_tasks = {}
                /\ current_height_messages = <<>>
                /\ awaiting = "none"
           ELSE events[k + 1].cur = e.h + 1

\* A running driver was dropped by a sync above its height and the next driver runs.
C3_Witness ==
    \E k \in SyncIdx :
        /\ k > 1 /\ k < Len(events)
        /\ events[k - 1] = StartEv(events[k].cur)
        /\ events[k].h > events[k].cur
        /\ events[k + 1] = StartEv(events[k].h + 1)
        /\ pc = "inner"

\* C4: when run_height returns a Decision, decision_reached is called with its
\* block and precommits while current_height is still the decided height;
\* current_height advances without a sync only from there, by one; if the call
\* fails, current_height stays, run_consensus ends with that error and takes no
\* further step.
C4_DecisionAtomicity ==
    [][ /\ (pc = "shc" /\ pc' = "decision_reached")
            => /\ events' = Append(events, DecisionEv(current_height))
               /\ reached' = [block |-> decision'.block,
                              precommits |-> decision'.precommits]
               /\ current_height' = current_height
        /\ (current_height' # current_height /\ events' = events)
            => /\ pc = "decision_reached"
               /\ Last(events) = DecisionEv(current_height)
               /\ current_height' = current_height + 1
        /\ (pc = "decision_reached" /\ pc' = "error")
            => /\ current_height' = current_height
               /\ err' = "ContextError"
               /\ events' = events
        /\ pc = "error" => UNCHANGED vars
      ]_vars

\* decision_reached failed after an earlier height was committed.
C4_Witness ==
    /\ pc = "error"
    /\ err = "ContextError"
    /\ Cardinality(DecisionIdx) = 2
    /\ Last(events) = DecisionEv(current_height)

\* C5: a sync height below current_height is taken from the receiver and
\* nothing else changes; a sync advance is only ever taken for a height
\* h >= current_height.
C5_SyncBelowIgnored ==
    [][ /\ (sync_taken' = sync_taken + 1 /\ Head(sync_pending) < current_height)
            => UNCHANGED <<current_height, pc, err, cached_messages,
                           current_height_messages, shc_tasks, elapsed, awaiting,
                           decision, reached, sync_count, net_count, net_last,
                           task_count, events, inserted, drained, delivered,
                           net_pulls>>
        /\ (Len(events') > Len(events) /\ Last(events').ev = "sync")
            => /\ sync_taken' = sync_taken + 1
               /\ Head(sync_pending) >= current_height
               /\ Last(events').h = Head(sync_pending)
      ]_vars

\* The only sync item taken so far was below current_height; the driver still runs.
C5_Witness ==
    /\ sync_taken = 1
    /\ sync_count = 0
    /\ SyncIdx = {}
    /\ pc = "inner"
    /\ shc_tasks # {}
    /\ DOMAIN cached_messages # {}

\* C6: the drain at height H leaves no key <= H in the cache, leaves every
\* entry with a key > H as it was, and returns, in insertion order, exactly the
\* messages that were pushed under key H.
C6_DrainCorrect ==
    [][ (pc = "shc" /\ awaiting = "start" /\ pc' = "inner")
        => /\ DOMAIN cached_messages' = {k \in DOMAIN cached_messages : k > current_height}
           /\ \A k \in DOMAIN cached_messages' : cached_messages'[k] = cached_messages[k]
           /\ current_height_messages' = inserted[current_height]
           /\ \A i, j \in 1..Len(current_height_messages') :
                 i < j => current_height_messages'[i].id < current_height_messages'[j].id
      ]_vars

\* The drain returned two messages and dropped the entry of a height that was skipped.
C6_Witness ==
    /\ pc = "inner"
    /\ Len(drained) = 2
    /\ current_height_messages = drained
    /\ \E k \in 1..(current_height - 1) :
          inserted[k] # <<>> /\ k \notin DOMAIN cached_messages

\* C7 as stated: in every reachable state the cache holds no key <= current_height.
C7_Original ==
    \A k \in DOMAIN cached_messages : k > current_height

\* C7 amended: from the drain of a height until that height ends (the driver is
\* in its loop or in a machine call made from the loop) the cache holds no key
\* <= current_height.
C7_CacheAfterDrain ==
    (pc = "inner" \/ (pc = "shc" /\ awaiting # "start"))
    => \A k \in DOMAIN cached_messages : k > current_height

\* The driver drained messages of its height and the cache still holds later ones.
C7_Witness ==
    /\ pc = "inner"
    /\ drained # <<>>
    /\ DOMAIN cached_messages # {}

\* C8: a cached message of a future height stays in the cache, in place, as
\* long as current_height is below its height; and a driver takes an item from
\* the network receiver only after every message its drain returned has been
\* handed to the machine.
C8_BufferedFirst ==
    /\ [](/\ \A i \in 1..Len(delivered) :
                delivered[i].src = "net" => i > Len(drained)
          /\ net_pulls > 0
                => /\ Len(delivered) >= Len(drained)
                   /\ {delivered[i].msg : i \in 1..Len(drained)} = Range(drained)
                   /\ \A i \in 1..Len(drained) : delivered[i].src = "cache")
    /\ [][ \A k \in DOMAIN cached_messages :
              k > current_height'
              => /\ k \in DOMAIN cached_messages'
                 /\ Len(cached_messages'[k]) >= Len(cached_messages[k])
                 /\ SubSeq(cached_messages'[k], 1, Len(cached_messages[k]))
                        = cached_messages[k]
         ]_vars

\* Two cached messages were handed to the machine, then the network was read.
C8_Witness ==
    /\ Len(drained) = 2
    /\ net_pulls = 1
    /\ Len(delivered) = 2

\* C9: a message below the driver's height taken from the network is dropped:
\* the cache, the machine, the tasks and the height stay as they are and the
\* driver goes on with its loop.
C9_PastDiscard ==
    [][ (net_count' = net_count + 1 /\ net_last'.parsed
            /\ net_last'.msg.height < current_height)
        => /\ pc = "inner" /\ pc' = "inner"
           /\ UNCHANGED <<cached_messages, inserted, delivered, awaiting, shc_tasks,
                          elapsed, task_count, current_height, events, err,
                          current_height_messages>>
      ]_vars

\* The driver just took a message of a lower height while holding a task.
C9_Witness ==
    /\ pc = "inner"
    /\ net_pulls > 0
    /\ net_last.parsed
    /\ net_last.msg.height < current_height
    /\ shc_tasks # {}
    /\ delivered = <<>>

\* C10 as stated: a failed item's report handle is signalled once and the loop
\* ends with a message-conversion error; a parsed item's handle is not signalled.
C10_Original ==
    /\ net_last.parsed => net_last.signalled = 0
    /\ ~net_last.parsed
        => /\ net_last.signalled = 1
           /\ pc = "error"
           /\ err = "MessageConversionError"

\* C10 amended: as stated when the signal is delivered; when sending the signal
\* fails the loop ends with an internal network error instead.
C10_ParseErrorReport ==
    /\ net_last.parsed => net_last.signalled = 0
    /\ ~net_last.parsed
        => /\ net_last.signalled = 1
           /\ pc = "error"
           /\ (net_last.send_ok => err = "MessageConversionError")
           /\ (~net_last.send_ok => err = "InternalNetworkError")

\* A parsed item was taken, then one that failed to parse and was reported.
C10_Witness ==
    /\ ~net_last.parsed
    /\ net_last.send_ok
    /\ net_count = 2
    /\ err = "MessageConversionError"

\* The number of messages the cache holds.
CachedTotal ==
    Cardinality(UNION {{<<k, i>> : i \in 1..Len(cached_messages[k])} :
                          k \in DOMAIN cached_messages})

\* C11: the number of cached messages is capped whatever the network delivers.
\* A cap that does not grow with the number of delivered messages keeps the
\* cache below the MaxInputs messages a run can deliver.
C11_CacheCapped ==
    CachedTotal < MaxInputs

\* C12: in every state, also after an error, the sync counter equals the number
\* of accepted sync advances.
C12_SyncCountIsAdvances ==
    sync_count = Cardinality(SyncIdx)

\* C13: every error ends run_consensus with that error: the step that meets it
\* calls no decision_reached, starts no driver and leaves current_height; the
\* error is the one of its source; nothing happens afterwards.
C13_NoLocalRecovery ==
    /\ [](err # "" <=> pc = "error")
    /\ [][ /\ err' # err
               => /\ err = ""
                  /\ pc' = "error"
                  /\ current_height' = current_height
                  /\ events' = events
                  /\ pc = "decision_reached" => err' = "ContextError"
                  /\ pc = "shc" => err' \in {"SingleHeightError", "SyncError"}
                  /\ pc = "inner" => err' \in {"InternalNetworkError",
                                               "MessageConversionError", "SyncError"}
                  /\ pc \in {"select", "validators"} => err' = "SyncError"
           /\ pc = "error" => UNCHANGED vars
         ]_vars

\* A machine call made for a delivered message failed after an earlier height
\* was committed.
C13_Witness ==
    /\ pc = "error"
    /\ err = "SingleHeightError"
    /\ Len(delivered) = 1
    /\ DecisionIdx # {}

\* C14: no height has both a decision_reached call and a sync advance; from the
\* moment run_height returned a Decision until decision_reached returned, no
\* item is taken from the sync receiver, so a height waiting there neither
\* stops the call nor moves current_height.
C14_OneBranchPerHeight ==
    /\ [](\A i \in StartIdx :
            ~(/\ \E d \in DecisionIdx : events[d].cur = events[i].cur
              /\ \E k \in SyncIdx : events[k].cur = events[i].cur))
    /\ [][ /\ (pc = "shc" /\ pc' = "decision_reached")
               => /\ sync_pending' = sync_pending
                  /\ sync_taken' = sync_taken
           /\ pc = "decision_reached"
               => /\ sync_taken' = sync_taken
                  /\ sync_count' = sync_count
                  /\ Len(sync_pending') >= Len(sync_pending)
                  /\ events' = events
                  /\ current_height' \in {current_height, current_height + 1}
         ]_vars

\* run_height returned a Decision while a sync height for this height or a
\* later one was waiting in the receiver.
C14_Witness ==
    /\ pc = "decision_reached"
    /\ sync_pending # <<>>
    /\ Head(sync_pending) >= current_height
    /\ Last(events) = DecisionEv(current_height)

\* A height that sync_height will accept is waiting in the sync receiver.
Stalled == sync_pending # <<>> /\ Head(sync_pending) >= current_height

\* C20: a sync height h >= current_height waiting in the receiver does not wait
\* for ever, whatever the driver does meanwhile: unless run_consensus ends with
\* an error, the wait ends, and it ends with current_height > h.
C20_StalledHeightAbandoned ==
    /\ [][(Stalled /\ ~Stalled') => current_height' > Head(sync_pending)]_vars
    /\ Stalled ~> (~Stalled \/ pc = "error")

\* A driver that had handled two messages was abandoned by a sync advance.
C20_Witness ==
    /\ events # <<>>
    /\ Last(events).ev = "sync"
    /\ pc = "select"
    /\ Len(delivered) = 2
    /\ current_height = Last(events).h + 1

\* C15 as stated: while machine.start is awaited, and when the driver has
\* returned a Decision, the cache holds no key <= current_height.
C15_Original ==
    ((pc = "shc" /\ awaiting = "start") \/ pc = "decision_reached")
        => \A k \in DOMAIN cached_messages : k > current_height

\* C15 amended: the cache is drained after machine.start returned tasks and
\* before anything is handed to the machine; until then the driver leaves the
\* cache as it found it, and a driver whose start returns a Decision or an
\* error never drains it.
C15_DrainAfterStart ==
    /\ []((pc = "validators" \/ (pc = "shc" /\ awaiting = "start"))
            => /\ drained = <<>>
               /\ delivered = <<>>
               /\ current_height_messages = <<>>)
    /\ [][ /\ (pc \in {"select", "validators"} \/ (pc = "shc" /\ awaiting = "start"))
               => \/ cached_messages' = cached_messages
                  \/ /\ pc = "shc"
                     /\ pc' = "inner"
                     /\ LET r == get_current_height_messages(cached_messages, current_height)
                        IN /\ cached_messages' = r.cache
                           /\ current_height_messages' = r.msgs
                     /\ \A k \in DOMAIN cached_messages' : k > current_height
                     /\ delivered' = <<>>
           /\ (pc = "shc" /\ awaiting = "start" /\ pc' \in {"decision_reached", "error"})
               => cached_messages' = cached_messages
           /\ (pc = "shc" /\ awaiting = "start" /\ pc' = "inner")
               => cached_messages' =
                      get_current_height_messages(cached_messages, current_height).cache
         ]_vars

\* machine.start returned a Decision while the cache held messages of this height.
C15_Witness ==
    /\ pc = "decision_reached"
    /\ Last(events) = DecisionEv(current_height)
    /\ delivered = <<>>
    /\ current_height \in DOMAIN cached_messages

\* The deliveries of the current driver that came from its buffer.
FromCache == SelectSeq(delivered, LAMBDA d : d.src = "cache")

\* C16: a cache entry and the buffer drained from it hold their messages in
\* arrival order; the i-th message the machine gets from the buffer is the i-th
\* from the end of what was drained, so the order is reversed and no drained
\* message is delivered twice; what is not yet delivered is still in the buffer.
C16_ReverseDelivery ==
    /\ \A k \in DOMAIN cached_messages :
         \A i, j \in 1..Len(cached_messages[k]) :
            i < j => cached_messages[k][i].id < cached_messages[k][j].id
    /\ \A i, j \in 1..Len(drained) : i < j => drained[i].id < drained[j].id
    /\ Len(FromCache) <= Len(drained)
    /\ \A i \in 1..Len(FromCache) : FromCache[i].msg = drained[Len(drained) + 1 - i]
    /\ \A i, j \in 1..Len(delivered) : i # j => delivered[i].msg # delivered[j].msg
    /\ (pc = "inner" \/ (pc = "shc" /\ awaiting # "start"))
         => current_height_messages = SubSeq(drained, 1, Len(drained) - Len(FromCache))

\* Two messages were cached for a height and its machine got the later one first.
C16_Witness ==
    /\ Len(drained) = 2
    /\ Len(FromCache) = 2
    /\ FromCache[1].msg.id > FromCache[2].msg.id
    /\ FromCache[1].msg.height = current_height

\* The ids of the tasks that were created and are neither scheduled nor handled.
DroppedIds == {i \in 1..task_count : \A t \in shc_tasks \cup handled : t.id # i}

\* C17: every task the machine returns is pushed to the scheduler of its
\* driver; a task leaves the scheduler either by being passed to handle_task,
\* which takes one task whose sleep is over and whose height is the driver's,
\* or with the driver; no task enters the scheduler a second time, and outside
\* a driver's loop the scheduler is empty.
C17_TaskScheduling ==
    /\ [](/\ elapsed \subseteq shc_tasks
          /\ \A t \in shc_tasks : t.height = current_height /\ t.id \in 1..task_count
          /\ shc_tasks \cap handled = {}
          /\ \A t, u \in shc_tasks \cup handled : t.id = u.id => t = u
          /\ pc \in {"select", "validators", "decision_reached", "error"} => shc_tasks = {}
          /\ (pc = "shc" /\ awaiting = "start") => shc_tasks = {})
    /\ [][ /\ (pc = "shc" /\ pc' = "inner")
               => /\ shc_tasks \subseteq shc_tasks'
                  /\ Cardinality(shc_tasks' \ shc_tasks) = task_count' - task_count
                  /\ \A t \in shc_tasks' \ shc_tasks :
                        t.height = current_height /\ t.id > task_count
           /\ task_count' # task_count => (pc = "shc" /\ pc' = "inner")
           /\ handled' # handled
               => /\ pc = "inner"
                  /\ awaiting' = "handle_task"
                  /\ \E t \in elapsed :
                        /\ t.height = current_height
                        /\ t \notin handled
                        /\ handled' = handled \cup {t}
                        /\ shc_tasks' = shc_tasks \ {t}
           /\ (awaiting' = "handle_task" /\ awaiting # "handle_task") => handled' # handled
           /\ ~(shc_tasks \subseteq shc_tasks')
               => \/ handled' # handled
                  \/ /\ shc_tasks' = {}
                     /\ pc' \in {"select", "decision_reached", "error"}
         ]_vars

\* A task scheduled at an earlier height went with its driver, and a task of
\* the present, later height has been passed to handle_task.
C17_Witness ==
    /\ current_height > start_height
    /\ \E t \in handled :
          /\ t.height = current_height
          /\ \E i \in DroppedIds : i < t.id

\* The messages cached under key k.
CacheAt(k) == IF k \in DOMAIN cached_messages THEN cached_messages[k] ELSE <<>>

\* C18: a step that takes a height from the sync receiver leaves the cache as
\* it is; the cache holds, for every height above current_height, all the
\* messages ever cached for it, in order; and what a driver has drained is all
\* that was ever cached for its height.
C18_SyncKeepsCache ==
    /\ [](/\ \A k \in Heights : k > current_height => CacheAt(k) = inserted[k]
          /\ ((pc = "inner" \/ (pc = "shc" /\ awaiting # "start")) /\ current_height \in Heights)
                => drained = inserted[current_height])
    /\ [][ (sync_taken' # sync_taken \/ sync_count' # sync_count)
               => /\ cached_messages' = cached_messages
                  /\ inserted' = inserted
         ]_vars

\* After a sync advance the new driver drained messages cached for its height
\* while messages of a later height are still cached.
C18_Witness ==
    /\ Len(events) >= 2
    /\ events[Len(events) - 1].ev = "sync"
    /\ Last(events) = StartEv(current_height)
    /\ pc = "inner"
    /\ drained # <<>>
    /\ \E k \in Heights : k > current_height /\ CacheAt(k) # <<>>

\* C19: every message handed to the machine of the running driver has the
\* driver's height, whether it came from the buffer or from the network; the
\* buffer holds only messages of that height, and a cache entry only messages
\* of its key.
C19_OnlyOwnHeight ==
    /\ [](/\ (events # <<>> /\ Last(events).ev = "start")
                => \A i \in 1..Len(delivered) : delivered[i].msg.height = Last(events).cur
          /\ \A i \in 1..Len(current_height_messages) :
                current_height_messages[i].height = current_height
          /\ \A k \in DOMAIN cached_messages :
                \A i \in 1..Len(cached_messages[k]) : cached_messages[k][i].height = k)
    /\ [][ /\ delivered' # delivered /\ delivered' # <<>>
               => /\ delivered' = Append(delivered, Last(delivered'))
                  /\ Last(delivered').msg.height = current_height
                  /\ pc = "inner" /\ pc' = "shc"
           /\ (net_count' # net_count /\ net_last'.parsed
                  /\ net_last'.msg.height # current_height)
               => /\ delivered' = delivered
                  /\ pc' = "inner"
                  /\ IF net_last'.msg.height > current_height
                     THEN cached_messages' = cache_push(cached_messages, net_last'.msg)
                     ELSE cached_messages' = cached_messages
         ]_vars

\* The machine of a height got a message from the buffer and one from the
\* network, and the driver then took a message of an earlier height from the
\* network and dropped it.
C19_Witness ==
    /\ \E i, j \in 1..Len(delivered) :
          delivered[i].src = "cache" /\ delivered[j].src = "net"
    /\ pc = "inner"
    /\ net_last.parsed
    /\ net_last.msg.id = net_count
    /\ net_last.msg.height < current_height
    /\ Last(delivered).msg # net_last.msg

====
